---- MODULE Spec2Model ----
(***************************************************************************)
(* HDDStream online microcluster maintenance (chronoclust/hddstream.py).   *)
(*                                                                         *)
(* Numbers.  The program computes on floats.  The model computes exactly:  *)
(* configuration values are rationals <<numerator, denominator>> with a    *)
(* positive denominator; CF1, CF2 and cumulative_weight are integers that  *)
(* stand for value * Scale, where Scale is a power of two large enough for *)
(* every decay 2^(-lambda*interval) the bounds allow to be an exact        *)
(* division (lambda is a natural number, so the factor is a power of two   *)
(* and the float product is exact as well).  Distances and radii are kept  *)
(* squared and as rationals; the order of two distances is the order of    *)
(* their squares.                                                          *)
(*                                                                         *)
(* The Microcluster class (chronoclust/helper_objects.py) is not part of   *)
(* the sources at hand; its operations are modelled from the specification.*)
(***************************************************************************)
EXTENDS Integers, Sequences, FiniteSets, TLC

\* ------------------------------------------------------------------ bounds
MaxCalls == 3
MaxBatch == 2
MaxOneBatch == 4
MaxDay == 2
MaxProbeSteps == 2
MaxPickles == 1

\* ------------------------------------------------------------------ inputs
\* Rows a batch can hold (input_dataset[row]); all of one dimensionality.
PointValues == {<<0, 0>>, <<1, 1>>, <<2, 2>>}

\* Values of the configuration file, as <<numerator, denominator>>.
EpsilonValues == {<<1, 2>>}
DeltaValues == {<<1, 2>>, <<3, 2>>}
BetaValues == {<<1, 2>>, <<1, 1>>}
KValues == {<<2, 1>>, <<1, 2>>}
LambdaValues == {1}
PiValues == {<<-1, 2>>, <<1, 1>>}
MuValues == {<<1, 1>>}
OmicronValues == {<<1, 4>>}

Configs ==
    [epsilon : EpsilonValues, delta : DeltaValues, beta : BetaValues, k : KValues,
     lambda : LambdaValues, pi : PiValues, mu : MuValues, omicron : OmicronValues]

\* reset_param: the default of the argument.
ResetParamValues == {TRUE}

\* The input datasets: 2d arrays of 0..n rows.
Datasets(n) == UNION {[1..m -> PointValues] : m \in 0..n}

\* input_dataset.shape[1]
Shape1 == Len(CHOOSE p \in PointValues : TRUE)

\* ------------------------------------------------------------------ numbers
RECURSIVE Pow2(_)
Pow2(n) == IF n = 0 THEN 1 ELSE 2 * Pow2(n - 1)

MaxOf(S) == CHOOSE x \in S : \A y \in S : y <= x

\* CF1, CF2 and cumulative_weight hold value * Scale.  The batch that creates
\* a microcluster does not decay it (the decay of line 193 runs before the
\* rows are routed); each of the other MaxCalls - 1 operations decays it by
\* an interval of MaxDay at most.
Scale == Pow2(MaxOf(LambdaValues) * MaxDay * (MaxCalls - 1))

None == <<>>

RLe(a, b) == a[1] * b[2] <= b[1] * a[2]
RLt(a, b) == a[1] * b[2] < b[1] * a[2]
RSquare(a) == <<a[1] * a[1], a[2] * a[2]>>

\* int(float(text)): truncation toward zero.
IntOfFloat(a) == IF a[1] >= 0 THEN a[1] \div a[2] ELSE -((-a[1]) \div a[2])

RECURSIVE SumOver(_, _)
SumOver(f, S) ==
    IF S = {} THEN 0
    ELSE LET x == CHOOSE y \in S : TRUE IN f[x] + SumOver(f, S \ {x})

Dims(v) == 1..Len(v)

\* ------------------------------------------------------------------ Microcluster
\* A microcluster object.  uid is the identity of the Python object (what
\* list.remove and "is" see); id is its id attribute, the one number the
\* one-element list or set holds.
Microcluster(uid, cf1, cf2, id, creation_time) ==
    [uid |-> uid, id |-> id, CF1 |-> cf1, CF2 |-> cf2, cumulative_weight |-> 0,
     preferred_dimension_vector |-> None, points |-> <<>>, creation_time |-> creation_time]

\* np.zeros(len(datapoint))
Zeros(datapoint) == [i \in Dims(datapoint) |-> 0]

\* addPoint: CF1 += point, CF2 += point^2, weight += 1, point recorded in the
\* transient buffer; nothing else.  The buffer keeps each point with the
\* timestamp it was added with.
add_new_point(mc, datapoint, timestamp) ==
    [mc EXCEPT !.CF1 = [i \in Dims(datapoint) |-> mc.CF1[i] + datapoint[i] * Scale],
               !.CF2 = [i \in Dims(datapoint) |-> mc.CF2[i] + datapoint[i] * datapoint[i] * Scale],
               !.cumulative_weight = mc.cumulative_weight + Scale,
               !.points = Append(mc.points, [point |-> datapoint, timestamp |-> timestamp])]

\* Numerator of the variance of dimension i over the denominator weight^2:
\* CF2/w - (CF1/w)^2 = (CF2*w - CF1^2) / w^2.
VarianceNum(mc, i) == mc.CF2[i] * mc.cumulative_weight - mc.CF1[i] * mc.CF1[i]

\* updatePreferredDimensions: a dimension whose variance is <= the threshold is
\* preferred (entry 1); every other dimension holds the non-preferred value k.
update_preferred_dimensions(mc, variance_threshold_squared, kappa) ==
    [mc EXCEPT !.preferred_dimension_vector =
        [i \in Dims(mc.CF1) |->
            IF VarianceNum(mc, i) * variance_threshold_squared[2]
                   <= variance_threshold_squared[1] * mc.cumulative_weight * mc.cumulative_weight
            THEN <<1, 1>> ELSE kappa]]

\* copyWithPoint: an independent clone with the point merged and the preferred
\* dimensions recomputed; the original is not touched.
get_copy_with_new_point(mc, datapoint, variance_threshold_squared, kappa) ==
    update_preferred_dimensions(add_new_point(mc, datapoint, mc.creation_time),
                                variance_threshold_squared, kappa)

IsPreferred(entry) == entry[1] = entry[2]

PreferredDims(mc) == {i \in Dims(mc.CF1) : IsPreferred(mc.preferred_dimension_vector[i])}

\* projectedDistanceTo, squared: over the preferred dimensions only, from the
\* centroid CF1/w to the point.
get_projected_dist_to_point(mc, datapoint) ==
    LET w == mc.cumulative_weight
        sq == [i \in Dims(mc.CF1) |-> (mc.CF1[i] - datapoint[i] * w) * (mc.CF1[i] - datapoint[i] * w)]
    IN  <<SumOver(sq, PreferredDims(mc)), w * w>>

\* projectedRadiusSquared: the second moment about the centroid over the
\* preferred dimensions, from CF1, CF2 and the weight.
calculate_projected_radius_squared(mc) ==
    LET var == [i \in Dims(mc.CF1) |-> VarianceNum(mc, i)]
    IN  <<SumOver(var, PreferredDims(mc)), mc.cumulative_weight * mc.cumulative_weight>>

\* cluster_centroids = CF1 / cumulative_weight, per dimension, as rationals.
cluster_centroids(mc) == [i \in Dims(mc.CF1) |-> <<mc.CF1[i], mc.cumulative_weight>>]

\* (preferred_dimension_vector != 1).sum()
CountNotOne(vec) == Cardinality({i \in Dims(vec) : vec[i][1] # vec[i][2]})

\* (preferred_dimension_vector > 1).sum()
CountAboveOne(vec) == Cardinality({i \in Dims(vec) : vec[i][1] > vec[i][2]})

\* weight >= threshold, the weight holding value * Scale and the threshold a
\* rational.
WeightGe(weight, threshold) == weight * threshold[2] >= threshold[1] * Scale
WeightLe(weight, threshold) == weight * threshold[2] <= threshold[1] * Scale
WeightLt(weight, threshold) == weight * threshold[2] < threshold[1] * Scale

\* isCore: weight >= density threshold, pdim count <= cap, radius^2 <= threshold.
is_core(mc, radius_threshold_squared, density_threshold, max_pdim) ==
    /\ WeightGe(mc.cumulative_weight, density_threshold)
    /\ CountAboveOne(mc.preferred_dimension_vector) <= max_pdim
    /\ RLe(calculate_projected_radius_squared(mc), radius_threshold_squared)

\* resetPoints: only the raw-point buffer is cleared.
reset_points(mc) == [mc EXCEPT !.points = <<>>]

\* MicroclusterAsDatapoint(...)
MicroclusterAsDatapoint(values, id, is_core_cluster, cf1, cf2, weight) ==
    [datapoint_dimension_values |-> values, datapoint_id |-> id,
     is_core_cluster |-> is_core_cluster, cluster_CF1 |-> cf1, cluster_CF2 |-> cf2,
     cluster_cumulative_weight |-> weight]

\* ------------------------------------------------------------------ state
VARIABLES
    config,                 \* self.config: the values of the configuration file
    epsilon, delta, beta, k, lambbda,   \* the attributes __init__ reads from it, once
    pi, mu, omicron,        \* the thresholds derived per batch
    pcore_MC, outlier_MC,   \* the two collections, Python lists in insertion order
    last_data_timestamp,
    dataset_dimensionality,
    dataset_size,
    datapoints,             \* the payload offline_clustering hands to PreDeCon
    pc,                     \* where the program is
    input_dataset, input_dataset_daystamp, reset_param,   \* arguments of the running call
    row,                    \* index of the next row to route, from 1
    next_uid,               \* number of Microcluster objects constructed so far
    calls,                  \* calls of online_microcluster_maintenance so far
    prev,                   \* pc and the two collections before the last step of a call
    decay_runs,             \* times the decay-and-downgrade block ran in this call
    decay_interval,         \* interval handed to _decay_clusters_weight in this call
    routed,                 \* outcome of each row routed in this call
    live,                   \* uids of the microclusters created and not deleted
    decay_probe,            \* one microcluster under repeated decay_a_cluster_weight
    pickled,                \* the tuples __getstate__ has returned, as their holder keeps them
    operations              \* calls of the other public methods so far

vars == <<config, epsilon, delta, beta, k, lambbda, pickled, operations, pi, mu, omicron, pcore_MC, outlier_MC, last_data_timestamp,
          dataset_dimensionality, dataset_size, datapoints, pc, input_dataset,
          input_dataset_daystamp, reset_param, row, next_uid, calls, decay_runs,
          decay_interval, routed, live, decay_probe, prev>>

epsilon_squared == RSquare(epsilon)
delta_squared == RSquare(delta)

\* beta * mu
BetaMu == <<beta[1] * mu[1], beta[2] * mu[2]>>

\* ------------------------------------------------------------------ lists
\* list.remove(x): drops the first element that is x.
RECURSIVE ListRemove(_, _)
ListRemove(list, uid) ==
    IF list = <<>> THEN <<>>
    ELSE IF Head(list).uid = uid THEN Tail(list)
    ELSE <<Head(list)>> \o ListRemove(Tail(list), uid)

\* for mc in list: mc.reset_points()
ResetAll(list) == [i \in 1..Len(list) |-> reset_points(list[i])]

Uids(list) == {list[i].uid : i \in 1..Len(list)}

\* ------------------------------------------------------------------ decay

\* decay_a_cluster_weight with a decay that is linear in the interval.
decay_a_cluster_weight_linear(interval, microcluster) ==
    LET divisor == 1 + lambbda * interval
    IN  [microcluster EXCEPT
            !.CF1 = [i \in Dims(microcluster.CF1) |-> microcluster.CF1[i] \div divisor],
            !.CF2 = [i \in Dims(microcluster.CF2) |-> microcluster.CF2[i] \div divisor],
            !.cumulative_weight = microcluster.cumulative_weight \div divisor]

\* decay_a_cluster_weight with the factor 1 - lambda * interval, which is
\* negative for a long interval.
decay_a_cluster_weight_subtractive(interval, microcluster) ==
    LET decay_factor == 1 - lambbda * interval
    IN  [microcluster EXCEPT
            !.CF1 = [i \in Dims(microcluster.CF1) |-> microcluster.CF1[i] * decay_factor],
            !.CF2 = [i \in Dims(microcluster.CF2) |-> microcluster.CF2[i] * decay_factor],
            !.cumulative_weight = microcluster.cumulative_weight * decay_factor]

\* decay_a_cluster_weight: CF1, CF2 and the weight times 2 ** (-lambda * interval).
decay_a_cluster_weight(interval, microcluster) ==
    LET divisor == Pow2(lambbda * interval)
    IN  [microcluster EXCEPT
            !.CF1 = [i \in Dims(microcluster.CF1) |-> microcluster.CF1[i] \div divisor],
            !.CF2 = [i \in Dims(microcluster.CF2) |-> microcluster.CF2[i] \div divisor],
            !.cumulative_weight = microcluster.cumulative_weight \div divisor]

\* _decay_clusters_weight with each microcluster decayed in two passes of the
\* whole interval.
_decay_clusters_weight_twice(interval, list) ==
    [i \in 1..Len(list) |->
        decay_a_cluster_weight(interval, decay_a_cluster_weight(interval, list[i]))]

\* _decay_clusters_weight: every pcore, then every outlier.
_decay_clusters_weight(interval, list) ==
    [i \in 1..Len(list) |-> decay_a_cluster_weight(interval, list[i])]

\* ------------------------------------------------------------------ assignment
\* The loop of _add_to_pcore with "<=" for "<" at line 301: of several
\* candidates at the same distance the last one is kept.
RECURSIVE ClosestPcore_last_of_equals(_, _, _)
ClosestPcore_last_of_equals(i, closest, datapoint) ==
    IF i > Len(pcore_MC) THEN closest
    ELSE LET pmc == pcore_MC[i]
             temp_pmc == get_copy_with_new_point(pmc, datapoint, delta_squared, k)
             pdim_temp_pmc == CountNotOne(temp_pmc.preferred_dimension_vector)
             distance == get_projected_dist_to_point(pmc, datapoint)
         IN  IF /\ pdim_temp_pmc <= pi
                /\ \/ closest = 0
                   \/ RLe(distance, get_projected_dist_to_point(pcore_MC[closest], datapoint))
             THEN ClosestPcore_last_of_equals(i + 1, i, datapoint)
             ELSE ClosestPcore_last_of_equals(i + 1, closest, datapoint)

\* The loop of _add_to_pcore over enumerate(self.pcore_MC) from index i on;
\* closest is the index found so far, 0 for None.
RECURSIVE ClosestPcore(_, _, _)
ClosestPcore(i, closest, datapoint) ==
    IF i > Len(pcore_MC) THEN closest
    ELSE LET pmc == pcore_MC[i]
             temp_pmc == get_copy_with_new_point(pmc, datapoint, delta_squared, k)
             pdim_temp_pmc == CountNotOne(temp_pmc.preferred_dimension_vector)
             distance == get_projected_dist_to_point(pmc, datapoint)
         IN  IF /\ pdim_temp_pmc <= pi
                /\ \/ closest = 0
                   \/ RLt(distance, get_projected_dist_to_point(pcore_MC[closest], datapoint))
             THEN ClosestPcore(i + 1, i, datapoint)
             ELSE ClosestPcore(i + 1, closest, datapoint)

\* The loop of _add_to_outlier without the "closest_distance is None" test: no
\* first candidate is ever taken.
RECURSIVE ClosestOutlier_never_first(_, _, _)
ClosestOutlier_never_first(i, closest, datapoint) ==
    IF i > Len(outlier_MC) THEN closest
    ELSE LET distance == get_projected_dist_to_point(outlier_MC[i], datapoint)
         IN  IF /\ closest # 0
                /\ RLt(distance, get_projected_dist_to_point(outlier_MC[closest], datapoint))
             THEN ClosestOutlier_never_first(i + 1, i, datapoint)
             ELSE ClosestOutlier_never_first(i + 1, closest, datapoint)

\* The loop of _add_to_outlier over enumerate(self.outlier_MC).
RECURSIVE ClosestOutlier(_, _, _)
ClosestOutlier(i, closest, datapoint) ==
    IF i > Len(outlier_MC) THEN closest
    ELSE LET distance == get_projected_dist_to_point(outlier_MC[i], datapoint)
         IN  IF \/ closest = 0
                \/ RLt(distance, get_projected_dist_to_point(outlier_MC[closest], datapoint))
             THEN ClosestOutlier(i + 1, i, datapoint)
             ELSE ClosestOutlier(i + 1, closest, datapoint)

\* The radius test with "<" for "<=" at lines 314 and 357: a clone whose radius
\* squared is exactly epsilon squared is refused.
RadiusFits_strict(mc, datapoint) ==
    RLt(calculate_projected_radius_squared(
            get_copy_with_new_point(mc, datapoint, delta_squared, k)),
        epsilon_squared)

\* The radius test both assignments make on the clone of the closest cluster.
RadiusFits(mc, datapoint) ==
    RLe(calculate_projected_radius_squared(
            get_copy_with_new_point(mc, datapoint, delta_squared, k)),
        epsilon_squared)

\* The commit both assignments make on the closest cluster itself.
Commit(mc, datapoint, timestamp) ==
    update_preferred_dimensions(add_new_point(mc, datapoint, timestamp), delta_squared, k)

\* _add_to_pcore adding the point to the closest cluster itself, not to a clone,
\* before the radius test.
_add_to_pcore_on_original(datapoint, datapoint_timestamp) ==
    LET closest == ClosestPcore(1, 0, datapoint)
    IN  IF closest # 0
        THEN [ok |-> RadiusFits(pcore_MC[closest], datapoint),
              pcore |-> [pcore_MC EXCEPT ![closest] = Commit(pcore_MC[closest], datapoint, datapoint_timestamp)]]
        ELSE [ok |-> FALSE, pcore |-> pcore_MC]

\* _add_to_pcore: [ok, pcore], the value returned and the collection after it.
_add_to_pcore(datapoint, datapoint_timestamp) ==
    LET closest == ClosestPcore(1, 0, datapoint)
    IN  IF closest # 0 /\ RadiusFits(pcore_MC[closest], datapoint)
        THEN [ok |-> TRUE,
              pcore |-> [pcore_MC EXCEPT ![closest] = Commit(pcore_MC[closest], datapoint, datapoint_timestamp)]]
        ELSE [ok |-> FALSE, pcore |-> pcore_MC]

\* _upgrade_outlier_microcluster without line 389: the upgraded microcluster
\* stays in the outlier list.
_upgrade_outlier_microcluster_keeps(outliers, at) ==
    LET outlier_mc == outliers[at]
        weight_threshold_obeyed == WeightGe(outlier_mc.cumulative_weight, BetaMu)
        pdim_threshold_obeyed == CountAboveOne(outlier_mc.preferred_dimension_vector) <= pi
    IN  IF weight_threshold_obeyed /\ pdim_threshold_obeyed
        THEN [pcore |-> Append(pcore_MC, [outlier_mc EXCEPT !.id = Len(pcore_MC)]),
              outlier |-> outliers]
        ELSE [pcore |-> pcore_MC, outlier |-> outliers]

\* _upgrade_outlier_microcluster without line 390: the upgraded microcluster
\* is removed from the outlier list and appended nowhere.
_upgrade_outlier_microcluster_drops(outliers, at) ==
    LET outlier_mc == outliers[at]
        weight_threshold_obeyed == WeightGe(outlier_mc.cumulative_weight, BetaMu)
        pdim_threshold_obeyed == CountAboveOne(outlier_mc.preferred_dimension_vector) <= pi
    IN  IF weight_threshold_obeyed /\ pdim_threshold_obeyed
        THEN [pcore |-> pcore_MC, outlier |-> ListRemove(outliers, outlier_mc.uid)]
        ELSE [pcore |-> pcore_MC, outlier |-> outliers]

\* _upgrade_outlier_microcluster on the outlier at index at of the list outliers:
\* [pcore, outlier], the two collections after it.
_upgrade_outlier_microcluster(outliers, at) ==
    LET outlier_mc == outliers[at]
        weight_threshold_obeyed == WeightGe(outlier_mc.cumulative_weight, BetaMu)
        pdim_threshold_obeyed == CountAboveOne(outlier_mc.preferred_dimension_vector) <= pi
    IN  IF weight_threshold_obeyed /\ pdim_threshold_obeyed
        THEN [pcore |-> Append(pcore_MC, [outlier_mc EXCEPT !.id = Len(pcore_MC)]),
              outlier |-> ListRemove(outliers, outlier_mc.uid)]
        ELSE [pcore |-> pcore_MC, outlier |-> outliers]

\* _add_to_outlier: [ok, pcore, outlier].
_add_to_outlier(datapoint, datapoint_timestamp) ==
    LET closest == ClosestOutlier(1, 0, datapoint)
    IN  IF closest # 0 /\ RadiusFits(outlier_MC[closest], datapoint)
        THEN LET added == [outlier_MC EXCEPT ![closest] = Commit(outlier_MC[closest], datapoint, datapoint_timestamp)]
                 after == _upgrade_outlier_microcluster(added, closest)
             IN  [ok |-> TRUE, pcore |-> after.pcore, outlier |-> after.outlier]
        ELSE [ok |-> FALSE, pcore |-> pcore_MC, outlier |-> outlier_MC]

\* _create_new_outlier_cluster with cf1 and cf2 started at the point, not at zero.
_create_new_outlier_cluster_from_point(datapoint, creation_time) ==
    LET outlier_mc_id == Len(outlier_MC)
        start == [i \in Dims(datapoint) |-> datapoint[i] * Scale]
        outlier_mc == Microcluster(next_uid, start, start, outlier_mc_id, creation_time)
    IN  Append(outlier_MC, Commit(outlier_mc, datapoint, creation_time))

\* _create_new_outlier_cluster appending the zero microcluster as line 405
\* builds it, without lines 407-408.
_create_new_outlier_cluster_empty(datapoint, creation_time) ==
    LET outlier_mc_id == Len(outlier_MC)
        outlier_mc == Microcluster(next_uid, Zeros(datapoint), Zeros(datapoint), outlier_mc_id, creation_time)
    IN  Append(outlier_MC, outlier_mc)

\* _create_new_outlier_cluster: the outlier collection after it.
_create_new_outlier_cluster(datapoint, creation_time) ==
    LET outlier_mc_id == Len(outlier_MC)
        outlier_mc == Microcluster(next_uid, Zeros(datapoint), Zeros(datapoint), outlier_mc_id, creation_time)
    IN  Append(outlier_MC, Commit(outlier_mc, datapoint, creation_time))

\* ------------------------------------------------------------------ downgrade
\* _downgrade_potential_microclusters giving the microclusters that stay in
\* pcore_MC their new positions as ids once the walk is over.
RECURSIVE _downgrade_potential_microclusters_renumbers(_, _, _)
_downgrade_potential_microclusters_renumbers(i, pcores, outliers) ==
    IF i > Len(pcores)
    THEN [pcore |-> [j \in 1..Len(pcores) |-> [pcores[j] EXCEPT !.id = j - 1]], outlier |-> outliers]
    ELSE LET potential_cluster == pcores[i]
             weight_threshold_obeyed == WeightLt(potential_cluster.cumulative_weight, BetaMu)
             pdim_threshold_obeyed == CountAboveOne(potential_cluster.preferred_dimension_vector) > pi
         IN  IF weight_threshold_obeyed \/ pdim_threshold_obeyed
             THEN _downgrade_potential_microclusters_renumbers(
                      i + 1,
                      ListRemove(pcores, potential_cluster.uid),
                      Append(outliers, [potential_cluster EXCEPT !.id = Len(outliers)]))
             ELSE _downgrade_potential_microclusters_renumbers(i + 1, pcores, outliers)

\* _downgrade_potential_microclusters: the for loop walks self.pcore_MC by
\* position while the body removes from it, so the element after a removed
\* one moves into the position just visited.  i is the next position, from 1.
RECURSIVE _downgrade_potential_microclusters(_, _, _)
_downgrade_potential_microclusters(i, pcores, outliers) ==
    IF i > Len(pcores) THEN [pcore |-> pcores, outlier |-> outliers]
    ELSE LET potential_cluster == pcores[i]
             weight_threshold_obeyed == WeightLt(potential_cluster.cumulative_weight, BetaMu)
             pdim_threshold_obeyed == CountAboveOne(potential_cluster.preferred_dimension_vector) > pi
         IN  IF weight_threshold_obeyed \/ pdim_threshold_obeyed
             THEN _downgrade_potential_microclusters(
                      i + 1,
                      ListRemove(pcores, potential_cluster.uid),
                      Append(outliers, [potential_cluster EXCEPT !.id = Len(outliers)]))
             ELSE _downgrade_potential_microclusters(i + 1, pcores, outliers)

\* _downgrade_outlier_microclusters: the same walk over self.outlier_MC.
RECURSIVE _downgrade_outlier_microclusters(_, _)
_downgrade_outlier_microclusters(i, outliers) ==
    IF i > Len(outliers) THEN outliers
    ELSE LET outlier_cluster == outliers[i]
         IN  IF WeightLe(outlier_cluster.cumulative_weight, omicron)
             THEN _downgrade_outlier_microclusters(i + 1, ListRemove(outliers, outlier_cluster.uid))
             ELSE _downgrade_outlier_microclusters(i + 1, outliers)

\* ------------------------------------------------------------------ offline
\* offline_clustering with the flag computed against beta * mu, the threshold
\* of the upgrade, in place of mu.
RECURSIVE offline_clustering_beta(_, _)
offline_clustering_beta(i, dict) ==
    IF i > Len(pcore_MC) THEN dict
    ELSE LET cluster == pcore_MC[i]
             cluster_id == cluster.id
             cluster_is_core == is_core(cluster, epsilon_squared, BetaMu, pi)
             record == MicroclusterAsDatapoint(cluster_centroids(cluster), cluster_id, cluster_is_core,
                                               cluster.CF1, cluster.CF2, cluster.cumulative_weight)
         IN  offline_clustering_beta(i + 1,
                 [id \in DOMAIN dict \cup {cluster_id} |-> IF id = cluster_id THEN record ELSE dict[id]])

\* The loop of offline_clustering: datapoints[cluster_id] = ... for each pcore
\* in order; a later cluster with the same id replaces the earlier record.
RECURSIVE offline_clustering(_, _)
offline_clustering(i, dict) ==
    IF i > Len(pcore_MC) THEN dict
    ELSE LET cluster == pcore_MC[i]
             cluster_id == cluster.id
             cluster_is_core == is_core(cluster, epsilon_squared, mu, pi)
             record == MicroclusterAsDatapoint(cluster_centroids(cluster), cluster_id, cluster_is_core,
                                               cluster.CF1, cluster.CF2, cluster.cumulative_weight)
         IN  offline_clustering(i + 1,
                 [id \in DOMAIN dict \cup {cluster_id} |-> IF id = cluster_id THEN record ELSE dict[id]])

EmptyDict == [id \in {} |-> None]

\* ------------------------------------------------------------------ actions
\* What a step remembers of the state it started from: pc, the two collections,
\* the number of rows of the batch before the running one and, at the start of
\* the deletion pass, the microclusters the downgrade pass has just appended to
\* outlier_MC, and the weight the two collections held together when the
\* routing loop of the call was entered.
Snapshot ==
    [pc |-> pc, pcore |-> pcore_MC, outlier |-> outlier_MC,
     size_before |-> IF pc = "idle" THEN Len(input_dataset) ELSE prev.size_before,
     weight_start |-> IF pc \in {"params_set", "reset_points"}
                      THEN LET all == pcore_MC \o outlier_MC
                           IN  SumOver([i \in 1..Len(all) |-> all[i].cumulative_weight], 1..Len(all))
                      ELSE prev.weight_start,
     downgraded |-> IF pc = "downgrade_outlier"
                    THEN {outlier_MC[i].uid : i \in 1..Len(outlier_MC)}
                             \ {prev.outlier[i].uid : i \in 1..Len(prev.outlier)}
                    ELSE {}]
NoSnapshot ==
    [pc |-> "none", pcore |-> <<>>, outlier |-> <<>>, size_before |-> 0, weight_start |-> 0,
     downgraded |-> {}]

\* The attributes as HDDStream.__init__ leaves them, and no call running.
InitAttributes ==
    /\ pi = None
    /\ mu = None
    /\ omicron = None
    /\ pcore_MC = <<>>
    /\ outlier_MC = <<>>
    /\ last_data_timestamp = 0
    /\ dataset_dimensionality = 0
    /\ dataset_size = 0
    /\ datapoints = EmptyDict
    /\ input_dataset = <<>>
    /\ input_dataset_daystamp = 0
    /\ reset_param = TRUE
    /\ row = 1
    /\ next_uid = 0
    /\ calls = 0
    /\ prev = NoSnapshot
    /\ decay_runs = 0
    /\ decay_interval = 0
    /\ routed = <<>>
    /\ live = {}
    /\ pickled = <<>>
    /\ operations = 0

\* Before __init__ has run there is no attribute.
NotConstructed ==
    /\ epsilon = None
    /\ delta = None
    /\ beta = None
    /\ k = None
    /\ lambbda = None

Init ==
    /\ config \in Configs
    /\ pc = "new"
    /\ decay_probe = None
    /\ NotConstructed
    /\ InitAttributes

\* Line 140 with ">=" for ">": a delta of 1 is refused.
DeltaOutOfRange_one_refused(variance_threshold) ==
    variance_threshold[1] >= variance_threshold[2] \/ variance_threshold[1] < 0

\* calculate_pref_dim_variance_threshold: whether sys.exit is taken.
DeltaOutOfRange(variance_threshold) ==
    variance_threshold[1] > variance_threshold[2] \/ variance_threshold[1] < 0

\* HDDStream.__init__: epsilon is read at line 41; the delta of line 44 ends
\* the process when it is out of range, before beta, k and lambbda are read.
Construct ==
    /\ pc = "new"
    /\ prev' = NoSnapshot
    /\ epsilon' = config.epsilon
    /\ IF DeltaOutOfRange(config.delta)
       THEN /\ pc' = "exited"
            /\ UNCHANGED <<delta, beta, k, lambbda>>
       ELSE /\ pc' = "idle"
            /\ delta' = config.delta
            /\ beta' = config.beta
            /\ k' = config.k
            /\ lambbda' = config.lambda
    /\ UNCHANGED <<config, pickled, operations, pi, mu, omicron, pcore_MC, outlier_MC, last_data_timestamp,
                   dataset_dimensionality, dataset_size, datapoints, input_dataset,
                   input_dataset_daystamp, reset_param, row, next_uid, calls, decay_runs,
                   decay_interval, routed, live, decay_probe>>

\* Line 100 with "<" for "<=": a configured pi that truncates to 0 is kept.
SetPi_strict(dimensionality) ==
    LET config_pi == IntOfFloat(config.pi)
    IN  IF config_pi < 0 THEN dimensionality ELSE config_pi

\* The value _set_dataset_dependent_parameters gives self.pi.
SetPi(dimensionality) ==
    LET config_pi == IntOfFloat(config.pi)
    IN  IF config_pi <= 0 THEN dimensionality ELSE config_pi

\* The value _set_dataset_dependent_parameters gives self.omicron: the
\* multiplier times self.dataset_size as it is before line 115 overwrites it.
SetOmicron(size_before) == <<config.omicron[1] * size_before, config.omicron[2]>>

\* calculate_density_threshold
calculate_density_threshold(size) == <<config.mu[1] * size, config.mu[2]>>

\* The entry with line 115 moved before line 111: omicron from the size of the
\* batch that is arriving.
OnlineBegin_size_first(dataset, daystamp, reset) ==
    /\ pc = "idle"
    /\ prev' = Snapshot
    /\ daystamp >= last_data_timestamp
    /\ reset \/ calls > 0
    /\ input_dataset' = dataset
    /\ input_dataset_daystamp' = daystamp
    /\ reset_param' = reset
    /\ calls' = calls + 1
    /\ row' = 1
    /\ routed' = <<>>
    /\ decay_runs' = 0
    /\ decay_interval' = 0
    /\ IF reset
       THEN /\ dataset_dimensionality' = Shape1
            /\ pi' = SetPi(Shape1)
            /\ omicron' = SetOmicron(Len(dataset))
            /\ dataset_size' = Len(dataset)
            /\ mu' = calculate_density_threshold(Len(dataset))
       ELSE UNCHANGED <<dataset_dimensionality, pi, omicron, dataset_size, mu>>
    /\ pc' = "params_set"
    /\ UNCHANGED <<config, epsilon, delta, beta, k, lambbda, pickled, operations, pcore_MC, outlier_MC, last_data_timestamp, datapoints, next_uid,
                   live, decay_probe>>

\* online_microcluster_maintenance, lines 173-174: entry and the parameters.
\* The callers give day stamps that never decrease (the input contract of a
\* batch), and the first call is made with reset_param true: pi, mu and
\* omicron are None until then.
OnlineBegin(dataset, daystamp, reset) ==
    /\ pc = "idle"
    /\ prev' = Snapshot
    /\ daystamp >= last_data_timestamp
    /\ reset \/ calls > 0
    /\ input_dataset' = dataset
    /\ input_dataset_daystamp' = daystamp
    /\ reset_param' = reset
    /\ calls' = calls + 1
    /\ row' = 1
    /\ routed' = <<>>
    /\ decay_runs' = 0
    /\ decay_interval' = 0
    /\ IF reset
       THEN /\ dataset_dimensionality' = Shape1
            /\ pi' = SetPi(Shape1)
            /\ omicron' = SetOmicron(dataset_size)
            /\ dataset_size' = Len(dataset)
            /\ mu' = calculate_density_threshold(Len(dataset))
       ELSE UNCHANGED <<dataset_dimensionality, pi, omicron, dataset_size, mu>>
    /\ pc' = "params_set"
    /\ UNCHANGED <<config, epsilon, delta, beta, k, lambbda, pickled, operations, pcore_MC, outlier_MC, last_data_timestamp, datapoints, next_uid,
                   live, decay_probe>>

\* Line 189 with the day stamp tested against day 0, not the last day.
IsNewDay_from_zero(last, daystamp) == daystamp # 0

\* Line 189: whether this dataset is for another day than the last one.
IsNewDay(last, daystamp) == (last - daystamp) # 0

CheckDay ==
    /\ pc = "params_set"
    /\ prev' = Snapshot
    /\ pc' = IF IsNewDay(last_data_timestamp, input_dataset_daystamp) THEN "decay" ELSE "route"
    /\ UNCHANGED <<config, epsilon, delta, beta, k, lambbda, pickled, operations, pi, mu, omicron, pcore_MC, outlier_MC, last_data_timestamp,
                   dataset_dimensionality, dataset_size, datapoints, input_dataset,
                   input_dataset_daystamp, reset_param, row, next_uid, calls, decay_runs,
                   decay_interval, routed, live, decay_probe>>

\* Lines 192-193.
DecayClusters ==
    /\ pc = "decay"
    /\ prev' = Snapshot
    /\ LET interval == input_dataset_daystamp - last_data_timestamp
       IN  /\ pcore_MC' = _decay_clusters_weight(interval, pcore_MC)
           /\ outlier_MC' = _decay_clusters_weight(interval, outlier_MC)
           /\ decay_interval' = interval
    /\ decay_runs' = decay_runs + 1
    /\ pc' = "downgrade_pcore"
    /\ UNCHANGED <<config, epsilon, delta, beta, k, lambbda, pickled, operations, pi, mu, omicron, last_data_timestamp, dataset_dimensionality,
                   dataset_size, datapoints, input_dataset, input_dataset_daystamp,
                   reset_param, row, next_uid, calls, routed, live, decay_probe>>

\* Line 455.
DowngradePotential ==
    /\ pc = "downgrade_pcore"
    /\ prev' = Snapshot
    /\ LET after == _downgrade_potential_microclusters(1, pcore_MC, outlier_MC)
       IN  /\ pcore_MC' = after.pcore
           /\ outlier_MC' = after.outlier
    /\ pc' = "downgrade_outlier"
    /\ UNCHANGED <<config, epsilon, delta, beta, k, lambbda, pickled, operations, pi, mu, omicron, last_data_timestamp, dataset_dimensionality,
                   dataset_size, datapoints, input_dataset, input_dataset_daystamp,
                   reset_param, row, next_uid, calls, decay_runs, decay_interval, routed, live, decay_probe>>

\* Line 456.
DowngradeOutlier ==
    /\ pc = "downgrade_outlier"
    /\ prev' = Snapshot
    /\ outlier_MC' = _downgrade_outlier_microclusters(1, outlier_MC)
    /\ live' = live \ (Uids(outlier_MC) \ Uids(outlier_MC'))
    /\ pc' = "reset_points"
    /\ UNCHANGED <<config, epsilon, delta, beta, k, lambbda, pickled, operations, pi, mu, omicron, pcore_MC, last_data_timestamp,
                   dataset_dimensionality, dataset_size, datapoints, input_dataset,
                   input_dataset_daystamp, reset_param, row, next_uid, calls, decay_runs,
                   decay_interval, routed, decay_probe>>

\* Lines 198-203 without the second loop: only the potential-core buffers are
\* cleared.
ResetPoints_pcore_only ==
    /\ pc = "reset_points"
    /\ prev' = Snapshot
    /\ pcore_MC' = ResetAll(pcore_MC)
    /\ outlier_MC' = outlier_MC
    /\ pc' = "route"
    /\ UNCHANGED <<config, epsilon, delta, beta, k, lambbda, pickled, operations, pi, mu, omicron, last_data_timestamp, dataset_dimensionality,
                   dataset_size, datapoints, input_dataset, input_dataset_daystamp,
                   reset_param, row, next_uid, calls, decay_runs, decay_interval, routed, live, decay_probe>>

\* Lines 198-203.
ResetPoints ==
    /\ pc = "reset_points"
    /\ prev' = Snapshot
    /\ pcore_MC' = ResetAll(pcore_MC)
    /\ outlier_MC' = ResetAll(outlier_MC)
    /\ pc' = "route"
    /\ UNCHANGED <<config, epsilon, delta, beta, k, lambbda, pickled, operations, pi, mu, omicron, last_data_timestamp, dataset_dimensionality,
                   dataset_size, datapoints, input_dataset, input_dataset_daystamp,
                   reset_param, row, next_uid, calls, decay_runs, decay_interval, routed, live, decay_probe>>

\* Lines 212-222 without "if not trial1": a row merged into a potential-core
\* microcluster still goes on to the outlier assignment.
AddToPcore_falls_through ==
    /\ pc = "route"
    /\ prev' = Snapshot
    /\ row <= Len(input_dataset)
    /\ LET trial1 == _add_to_pcore(input_dataset[row], input_dataset_daystamp)
       IN  /\ pcore_MC' = trial1.pcore
           /\ routed' = IF trial1.ok THEN Append(routed, "pcore") ELSE routed
    /\ pc' = "add_outlier"
    /\ UNCHANGED <<config, epsilon, delta, beta, k, lambbda, pickled, operations, pi, mu, omicron, outlier_MC, last_data_timestamp,
                   dataset_dimensionality, dataset_size, datapoints, input_dataset,
                   input_dataset_daystamp, reset_param, row, next_uid, calls, decay_runs,
                   decay_interval, live, decay_probe>>

\* Lines 212-216: trial1 for the next row.
AddToPcore ==
    /\ pc = "route"
    /\ prev' = Snapshot
    /\ row <= Len(input_dataset)
    /\ LET trial1 == _add_to_pcore(input_dataset[row], input_dataset_daystamp)
       IN  /\ pcore_MC' = trial1.pcore
           /\ IF trial1.ok
              THEN /\ pc' = "route"
                   /\ row' = row + 1
                   /\ routed' = Append(routed, "pcore")
              ELSE /\ pc' = "add_outlier"
                   /\ UNCHANGED <<row, routed>>
    /\ UNCHANGED <<config, epsilon, delta, beta, k, lambbda, pickled, operations, pi, mu, omicron, outlier_MC, last_data_timestamp,
                   dataset_dimensionality, dataset_size, datapoints, input_dataset,
                   input_dataset_daystamp, reset_param, next_uid, calls, decay_runs,
                   decay_interval, live, decay_probe>>

\* Lines 219-222: trial2, reached when trial1 is False.
AddToOutlier ==
    /\ pc = "add_outlier"
    /\ prev' = Snapshot
    /\ LET trial2 == _add_to_outlier(input_dataset[row], input_dataset_daystamp)
       IN  /\ pcore_MC' = trial2.pcore
           /\ outlier_MC' = trial2.outlier
           /\ IF trial2.ok
              THEN /\ pc' = "route"
                   /\ row' = row + 1
                   /\ routed' = Append(routed, "outlier")
              ELSE /\ pc' = "create_outlier"
                   /\ UNCHANGED <<row, routed>>
    /\ UNCHANGED <<config, epsilon, delta, beta, k, lambbda, pickled, operations, pi, mu, omicron, last_data_timestamp, dataset_dimensionality,
                   dataset_size, datapoints, input_dataset, input_dataset_daystamp,
                   reset_param, next_uid, calls, decay_runs, decay_interval, live, decay_probe>>

\* Lines 225-227: reached when trial1 and trial2 are False.
CreateNewOutlier ==
    /\ pc = "create_outlier"
    /\ prev' = Snapshot
    /\ outlier_MC' = _create_new_outlier_cluster(input_dataset[row], input_dataset_daystamp)
    /\ next_uid' = next_uid + 1
    /\ live' = live \cup {next_uid}
    /\ pc' = "route"
    /\ row' = row + 1
    /\ routed' = Append(routed, "new")
    /\ UNCHANGED <<config, epsilon, delta, beta, k, lambbda, pickled, operations, pi, mu, omicron, pcore_MC, last_data_timestamp,
                   dataset_dimensionality, dataset_size, datapoints, input_dataset,
                   input_dataset_daystamp, reset_param, calls, decay_runs, decay_interval, decay_probe>>

\* Line 233 and the handoff taken from inside the loop: the rows left are not
\* routed.
RecordTimestamp_early ==
    /\ pc = "route"
    /\ prev' = Snapshot
    /\ last_data_timestamp' = input_dataset_daystamp
    /\ pc' = "offline"
    /\ UNCHANGED <<config, epsilon, delta, beta, k, lambbda, pickled, operations, pi, mu, omicron, pcore_MC, outlier_MC, dataset_dimensionality,
                   dataset_size, datapoints, input_dataset, input_dataset_daystamp,
                   reset_param, row, next_uid, calls, decay_runs, decay_interval, routed, live, decay_probe>>

\* Line 233, after the last row.
RecordTimestamp ==
    /\ pc = "route"
    /\ prev' = Snapshot
    /\ row > Len(input_dataset)
    /\ last_data_timestamp' = input_dataset_daystamp
    /\ pc' = "offline"
    /\ UNCHANGED <<config, epsilon, delta, beta, k, lambbda, pickled, operations, pi, mu, omicron, pcore_MC, outlier_MC, dataset_dimensionality,
                   dataset_size, datapoints, input_dataset, input_dataset_daystamp,
                   reset_param, row, next_uid, calls, decay_runs, decay_interval, routed, live, decay_probe>>

\* Line 235.
OfflineClustering ==
    /\ pc = "offline"
    /\ prev' = NoSnapshot
    /\ datapoints' = offline_clustering(1, EmptyDict)
    /\ pc' = "idle"
    /\ UNCHANGED <<config, epsilon, delta, beta, k, lambbda, pickled, operations, pi, mu, omicron, pcore_MC, outlier_MC, last_data_timestamp,
                   dataset_dimensionality, dataset_size, input_dataset,
                   input_dataset_daystamp, reset_param, row, next_uid, calls, decay_runs,
                   decay_interval, routed, live, decay_probe>>

\* A call of online_microcluster_maintenance, made while no call is running.
\* MaxCalls bounds the calls of it and of the other public methods together.
OnlineMicroclusterMaintenance ==
    /\ pc = "idle"
    /\ calls + operations < MaxCalls
    /\ \E dataset \in Datasets(MaxBatch), daystamp \in 0..MaxDay, reset \in ResetParamValues :
            OnlineBegin(dataset, daystamp, reset)

\* set_config is called with the configuration in force or with one that
\* differs from it in pi, in delta or in both.
SetConfigValues == {[config EXCEPT !.pi = p, !.delta = d] : p \in PiValues, d \in DeltaValues}

\* set_config, lines 81-82: self.config is replaced and nothing else; the
\* attributes read by __init__ keep the values of the first configuration.
SetConfig ==
    /\ pc = "idle"
    /\ calls + operations < MaxCalls
    /\ \E new \in SetConfigValues : config' = new
    /\ operations' = operations + 1
    /\ UNCHANGED <<epsilon, delta, beta, k, lambbda, pickled, pi, mu, omicron, pcore_MC,
                   outlier_MC, last_data_timestamp, dataset_dimensionality, dataset_size,
                   datapoints, pc, input_dataset, input_dataset_daystamp, reset_param, row,
                   next_uid, calls, decay_runs, decay_interval, routed, live, decay_probe, prev>>

\* The tuple of __getstate__, lines 64-68, by the names of its entries;
\* epsilon_squared and delta_squared are the squares of two of them, upsilon
\* is used by the offline step only.  self.config is not in it.  The entries
\* pcore_MC and outlier_MC are the two list objects of the instance, not
\* copies of them.
__getstate__ ==
    [pi |-> pi, mu |-> mu, epsilon |-> epsilon, delta |-> delta, beta |-> beta, k |-> k,
     lambbda |-> lambbda, omicron |-> omicron, pcore_MC |-> pcore_MC, outlier_MC |-> outlier_MC,
     last_data_timestamp |-> last_data_timestamp,
     dataset_dimensionality |-> dataset_dimensionality, dataset_size |-> dataset_size]

\* What becomes of the tuple: it is kept as returned, and its two lists are
\* then the lists of the instance, or it is pickled, and the bytes hold copies.
KeepValues == {"returned", "pickled"}

\* The number that stands for the pair of list objects of the instance: the
\* one of a kept tuple that shares them, else one no kept tuple carries.
SelfLists ==
    IF \E i \in 1..Len(pickled) : pickled[i].shared
    THEN pickled[CHOOSE i \in 1..Len(pickled) : pickled[i].shared].lists
    ELSE 1 + MaxOf({0} \cup {pickled[i].lists : i \in 1..Len(pickled)})

\* A tuple as its holder keeps it.  shared: its lists are the lists of the
\* instance, every change of which shows in the tuple; the entries pcore_MC
\* and outlier_MC are then read from the instance.  lists: which pair of list
\* objects a tuple kept as returned holds, 0 for pickled bytes.
Keep(state, how) ==
    IF how = "returned"
    THEN [state |-> [state EXCEPT !.pcore_MC = <<>>, !.outlier_MC = <<>>], shared |-> TRUE,
          lists |-> SelfLists]
    ELSE [state |-> state, shared |-> FALSE, lists |-> 0]

\* The tuple a holder hands to __setstate__.
Kept(entry) ==
    IF entry.shared
    THEN [entry.state EXCEPT !.pcore_MC = pcore_MC, !.outlier_MC = outlier_MC]
    ELSE entry.state

\* __getstate__ called between two calls.
GetState ==
    /\ pc = "idle"
    /\ calls + operations < MaxCalls
    /\ Len(pickled) < MaxPickles
    /\ \E how \in KeepValues : pickled' = Append(pickled, Keep(__getstate__, how))
    /\ operations' = operations + 1
    /\ UNCHANGED <<config, epsilon, delta, beta, k, lambbda, pi, mu, omicron, pcore_MC,
                   outlier_MC, last_data_timestamp, dataset_dimensionality, dataset_size,
                   datapoints, pc, input_dataset, input_dataset_daystamp, reset_param, row,
                   next_uid, calls, decay_runs, decay_interval, routed, live, decay_probe, prev>>

\* The kept tuples after __setstate__ has taken the lists of tuple i: with a
\* tuple that shares the lists of the instance nothing changes; with another
\* one the instance leaves its lists, which stay as they are in the tuples
\* that shared them, and the tuples kept as returned with the lists of tuple i
\* share them with the instance from now on.  Bytes are unpickled to new
\* objects, which no tuple holds.
Rebound(i) ==
    [j \in 1..Len(pickled) |->
        LET entry == pickled[j]
        IN  IF pickled[i].shared THEN entry
            ELSE IF pickled[i].lists # 0 /\ entry.lists = pickled[i].lists
            THEN [entry EXCEPT !.shared = TRUE, !.state.pcore_MC = <<>>, !.state.outlier_MC = <<>>]
            ELSE IF entry.shared
            THEN [entry EXCEPT !.shared = FALSE, !.state.pcore_MC = pcore_MC,
                               !.state.outlier_MC = outlier_MC]
            ELSE entry]

\* __setstate__, lines 70-76, with a tuple __getstate__ has returned: every
\* attribute of the tuple is overwritten, self.config is left alone, and
\* self.pcore_MC and self.outlier_MC are from now on the lists of the tuple.
SetState ==
    /\ pc = "idle"
    /\ \E i \in 1..Len(pickled) :
           LET state == Kept(pickled[i])
           IN  /\ pi' = state.pi
               /\ mu' = state.mu
               /\ epsilon' = state.epsilon
               /\ delta' = state.delta
               /\ beta' = state.beta
               /\ k' = state.k
               /\ lambbda' = state.lambbda
               /\ omicron' = state.omicron
               /\ pcore_MC' = state.pcore_MC
               /\ outlier_MC' = state.outlier_MC
               /\ last_data_timestamp' = state.last_data_timestamp
               /\ dataset_dimensionality' = state.dataset_dimensionality
               /\ dataset_size' = state.dataset_size
               /\ live' = Uids(state.pcore_MC) \cup Uids(state.outlier_MC)
               /\ pickled' = Rebound(i)
    /\ prev' = NoSnapshot
    /\ UNCHANGED <<config, operations, datapoints, pc, input_dataset,
                   input_dataset_daystamp, reset_param, row, next_uid, calls, decay_runs,
                   decay_interval, routed, decay_probe>>

\* downgrade_microclusters, lines 454-456, called between two calls: the two
\* passes, one after the other.  Before the first batch mu, pi and omicron
\* are None: the first comparison with one of them raises TypeError before
\* anything is changed, and with two empty lists there is nothing to compare.
DowngradeMicroclusters ==
    /\ pc = "idle"
    /\ calls + operations < MaxCalls
    /\ operations' = operations + 1
    /\ IF mu = None
       THEN UNCHANGED <<pcore_MC, outlier_MC, live>>
       ELSE LET after == _downgrade_potential_microclusters(1, pcore_MC, outlier_MC)
            IN  /\ pcore_MC' = after.pcore
                /\ outlier_MC' = _downgrade_outlier_microclusters(1, after.outlier)
                /\ live' = live \ (Uids(after.outlier) \ Uids(outlier_MC'))
    /\ UNCHANGED <<config, epsilon, delta, beta, k, lambbda, pickled, pi, mu, omicron,
                   last_data_timestamp, dataset_dimensionality, dataset_size,
                   datapoints, pc, input_dataset, input_dataset_daystamp, reset_param, row,
                   next_uid, calls, decay_runs, decay_interval, routed, decay_probe, prev>>

\* The intervals decay_a_cluster_weight is called with from outside.
DecayIntervalValues == 1..MaxDay

\* decay_a_cluster_weight, lines 255-270, called between two calls with a
\* microcluster of one of the two lists: the object is changed where it is.
DecayAClusterWeight ==
    /\ pc = "idle"
    /\ calls + operations < MaxCalls
    /\ operations' = operations + 1
    /\ \E interval \in DecayIntervalValues :
           \/ /\ \E i \in 1..Len(pcore_MC) :
                     pcore_MC' = [pcore_MC EXCEPT ![i] = decay_a_cluster_weight(interval, pcore_MC[i])]
              /\ UNCHANGED outlier_MC
           \/ /\ \E i \in 1..Len(outlier_MC) :
                     outlier_MC' = [outlier_MC EXCEPT ![i] = decay_a_cluster_weight(interval, outlier_MC[i])]
              /\ UNCHANGED pcore_MC
    /\ UNCHANGED <<config, epsilon, delta, beta, k, lambbda, pickled, pi, mu, omicron,
                   last_data_timestamp, dataset_dimensionality, dataset_size,
                   datapoints, pc, input_dataset, input_dataset_daystamp, reset_param, row,
                   next_uid, calls, decay_runs, decay_interval, routed, live, decay_probe, prev>>

\* offline_clustering, lines 411-452, called between two calls: the payload is
\* built from pcore_MC as it is.  With mu and pi None and a microcluster in
\* pcore_MC the call of is_core has no threshold to compare with and no
\* payload is handed over.
OfflineClusteringCall ==
    /\ pc = "idle"
    /\ calls + operations < MaxCalls
    /\ operations' = operations + 1
    /\ IF mu = None /\ pcore_MC # <<>>
       THEN UNCHANGED datapoints
       ELSE datapoints' = offline_clustering(1, EmptyDict)
    /\ UNCHANGED <<config, epsilon, delta, beta, k, lambbda, pickled, pi, mu, omicron, pcore_MC,
                   outlier_MC, last_data_timestamp, dataset_dimensionality, dataset_size,
                   pc, input_dataset, input_dataset_daystamp, reset_param, row,
                   next_uid, calls, decay_runs, decay_interval, routed, live, decay_probe, prev>>

\* calculate_pref_dim_variance_threshold, lines 122-143, called between two
\* calls: delta is read from self.config as it is now, and the process exits
\* when it is out of range; otherwise the value is returned and nothing is
\* changed.
CalculatePrefDimVarianceThreshold ==
    /\ pc = "idle"
    /\ calls + operations < MaxCalls
    /\ operations' = operations + 1
    /\ pc' = IF DeltaOutOfRange(config.delta) THEN "exited" ELSE pc
    /\ UNCHANGED <<config, epsilon, delta, beta, k, lambbda, pickled, pi, mu, omicron, pcore_MC,
                   outlier_MC, last_data_timestamp, dataset_dimensionality, dataset_size,
                   datapoints, input_dataset, input_dataset_daystamp, reset_param, row,
                   next_uid, calls, decay_runs, decay_interval, routed, live, decay_probe, prev>>

\* The steps of the constructor and of the calls of
\* online_microcluster_maintenance.
NextBatches ==
    \/ Construct
    \/ OnlineMicroclusterMaintenance
    \/ CheckDay
    \/ DecayClusters
    \/ DowngradePotential
    \/ DowngradeOutlier
    \/ ResetPoints
    \/ AddToPcore
    \/ AddToOutlier
    \/ CreateNewOutlier
    \/ RecordTimestamp
    \/ OfflineClustering

\* A run of batches under the configuration the object was built with.
SpecBatches == Init /\ [][NextBatches]_vars

\* Every public method of the class that changes what the model holds;
\* set_logger and calculate_density_threshold change none of it.
Next ==
    \/ NextBatches
    \/ SetConfig
    \/ GetState
    \/ SetState
    \/ DowngradeMicroclusters
    \/ DecayAClusterWeight
    \/ OfflineClusteringCall
    \/ CalculatePrefDimVarianceThreshold

Spec == Init /\ [][Next]_vars

\* ------------------------------------------------------------------ one batch
\* The first call alone, on the model as constructed, with a dataset of up to
\* MaxOneBatch rows.
FirstCall ==
    /\ pc = "idle"
    /\ calls = 0
    /\ \E dataset \in Datasets(MaxOneBatch), daystamp \in 0..MaxDay, reset \in ResetParamValues :
            OnlineBegin(dataset, daystamp, reset)

NextOneBatch ==
    \/ Construct
    \/ FirstCall
    \/ CheckDay
    \/ DecayClusters
    \/ DowngradePotential
    \/ DowngradeOutlier
    \/ ResetPoints
    \/ AddToPcore
    \/ AddToOutlier
    \/ CreateNewOutlier
    \/ RecordTimestamp
    \/ OfflineClustering

SpecOneBatch == Init /\ [][NextOneBatch]_vars

\* ------------------------------------------------------------------ construction
\* The constructor under a delta below, at the ends of, inside and above
\* [0, 1], followed by the first call where there is one.
ConstructDeltaValues == {<<-1, 2>>, <<0, 1>>, <<1, 2>>, <<1, 1>>, <<3, 2>>}

ConstructInit ==
    /\ config \in {[c EXCEPT !.delta = d] : c \in Configs, d \in ConstructDeltaValues}
    /\ pc = "new"
    /\ decay_probe = None
    /\ NotConstructed
    /\ InitAttributes

SpecConstruct == ConstructInit /\ [][NextOneBatch]_vars

\* ------------------------------------------------------------------ assignment alone
\* The first call under an epsilon of 1/2 and one of 1 and a delta of 1/2 and
\* one of 1, all of them values a float holds exactly.  With epsilon 1 and
\* delta 1 a microcluster of the points (1, 1), (1, 1), (0, 0) and the point
\* (2, 2) make a clone whose radius squared is exactly epsilon squared: CF1 / w
\* is 4 / 4, CF2 / w is 6 / 4, the variance of each dimension 1/2.
AssignEpsilonValues == {<<1, 2>>, <<1, 1>>}
AssignDeltaValues == {<<1, 2>>, <<1, 1>>}

AssignInit ==
    /\ config \in {[c EXCEPT !.epsilon = e, !.delta = d] :
                       c \in Configs, e \in AssignEpsilonValues, d \in AssignDeltaValues}
    /\ pc = "new"
    /\ decay_probe = None
    /\ NotConstructed
    /\ InitAttributes

SpecAssign == AssignInit /\ [][NextOneBatch]_vars

\* ------------------------------------------------------------------ decay alone
\* decay_a_cluster_weight applied to one microcluster, one interval after the
\* other: lambda is 0 or 1, the microcluster holds one or two points.
DecayLambdaValues == {0, 1}

ProbeClusters ==
    LET empty(p) == Microcluster(0, Zeros(p), Zeros(p), 0, 0)
    IN  {add_new_point(empty(p), p, 0) : p \in PointValues}
            \cup {add_new_point(add_new_point(empty(p), p, 0), q, 0) : p \in PointValues, q \in PointValues}

RECURSIVE SeqSum(_)
SeqSum(seq) == IF seq = <<>> THEN 0 ELSE Head(seq) + SeqSum(Tail(seq))

DecayInit ==
    /\ config \in {[c EXCEPT !.lambda = l, !.delta = <<1, 2>>] : c \in Configs, l \in DecayLambdaValues}
    /\ epsilon = config.epsilon
    /\ delta = config.delta
    /\ beta = config.beta
    /\ k = config.k
    /\ lambbda = config.lambda
    /\ pc = "decay_probe"
    /\ \E mc \in ProbeClusters : decay_probe = [original |-> mc, current |-> mc, intervals |-> <<>>]
    /\ InitAttributes

DecayOnce(interval) ==
    /\ pc = "decay_probe"
    /\ Len(decay_probe.intervals) < MaxProbeSteps
    /\ SeqSum(decay_probe.intervals) + interval <= MaxDay
    /\ decay_probe' = [decay_probe EXCEPT
            !.current = decay_a_cluster_weight(interval, decay_probe.current),
            !.intervals = Append(decay_probe.intervals, interval)]
    /\ UNCHANGED <<config, epsilon, delta, beta, k, lambbda, pickled, operations, pi, mu, omicron, pcore_MC, outlier_MC, last_data_timestamp,
                   dataset_dimensionality, dataset_size, datapoints, pc, input_dataset,
                   input_dataset_daystamp, reset_param, row, next_uid, calls, decay_runs,
                   decay_interval, routed, live, prev>>

DecayNext == \E interval \in 0..MaxDay : DecayOnce(interval)

SpecDecay == DecayInit /\ [][DecayNext]_vars

\* ------------------------------------------------------------------ claims
\* Number of positions of a list that hold the object uid.
Occurrences(list, uid) == Cardinality({i \in 1..Len(list) : list[i].uid = uid})

\* C1: every microcluster created and not yet deleted is in exactly one of
\* pcore_MC and outlier_MC, once; nothing else is in either collection.
C1_ExactlyOneCollection ==
    /\ \A uid \in live : Occurrences(pcore_MC, uid) + Occurrences(outlier_MC, uid) = 1
    /\ Uids(pcore_MC) \cup Uids(outlier_MC) \subseteq live

\* C1 witness: microclusters were created, one was upgraded and one deleted,
\* and both collections are occupied, the outlier one by a microcluster of
\* more than one point's weight.
C1_Witness ==
    /\ pcore_MC # <<>>
    /\ outlier_MC # <<>>
    /\ Cardinality(live) < next_uid
    /\ \E i \in 1..Len(outlier_MC) : outlier_MC[i].cumulative_weight > Scale

Ids(list) == {list[i].id : i \in 1..Len(list)}

\* C2 (as claimed): the identifiers in the potential-core collection and the
\* identifiers in the outlier collection never intersect.
C2_IdsDisjoint == Ids(pcore_MC) \cap Ids(outlier_MC) = {}

\* Whether a potential-core microcluster qualifies for downgrade: weight below
\* beta * mu, or more than pi dimensions above 1.
QualifiesForDowngrade(mc) ==
    \/ WeightLt(mc.cumulative_weight, BetaMu)
    \/ CountAboveOne(mc.preferred_dimension_vector) > pi

\* C3 (as claimed): once the downgrade pass of a new day has finished, no
\* microcluster that qualifies for downgrade is left in the potential-core
\* collection.
C3_DowngradeComplete ==
    pc = "downgrade_outlier" =>
        \A i \in 1..Len(pcore_MC) : ~QualifiesForDowngrade(pcore_MC[i])

\* C4 (as claimed): once the outlier-deletion pass of a new day has finished,
\* no outlier microcluster with cumulative_weight <= omega is left in the
\* outlier collection.
C4_DeletionComplete ==
    pc = "reset_points" =>
        \A i \in 1..Len(outlier_MC) :
            ~WeightLe(outlier_MC[i].cumulative_weight, omicron)

\* C5: the decay-and-downgrade block runs exactly once in a call whose day
\* stamp differs from last_data_timestamp, with interval = day stamp -
\* last_data_timestamp (an empty batch included), and not at all in a call
\* whose day stamp equals it, in which case nothing changes in either
\* collection before routing starts.
C5_DecayOncePerNewDay ==
    /\ pc \in {"route", "add_outlier", "create_outlier"} =>
            /\ decay_runs = IF input_dataset_daystamp # last_data_timestamp THEN 1 ELSE 0
            /\ decay_runs = 1 => decay_interval = input_dataset_daystamp - last_data_timestamp
    /\ pc \in {"decay", "downgrade_pcore", "downgrade_outlier", "reset_points"} =>
            /\ input_dataset_daystamp # last_data_timestamp
            /\ decay_runs = IF pc = "decay" THEN 0 ELSE 1
    /\ (prev.pc = "params_set" /\ input_dataset_daystamp = last_data_timestamp) =>
            /\ pc = "route"
            /\ row = 1
            /\ pcore_MC = prev.pcore
            /\ outlier_MC = prev.outlier
    /\ prev.pc = "idle" =>
            /\ pc = "params_set"
            /\ pcore_MC = prev.pcore
            /\ outlier_MC = prev.outlier

\* C5 witness: an empty batch on the day after the last one was decayed once,
\* with interval 1, over a model that holds microclusters.
C5_Witness ==
    /\ pc = "route"
    /\ input_dataset = <<>>
    /\ decay_runs = 1
    /\ decay_interval = 1
    /\ Len(pcore_MC) + Len(outlier_MC) > 0

\* C6: decaying with interval 0 changes nothing; decaying with d1 and then d2
\* gives the CF1, CF2 and weight of one decay with d1 + d2; and for lambda > 0
\* and weight > 0 a larger interval gives a strictly smaller weight.
C6_DecayComposes ==
    pc = "decay_probe" =>
        LET total == SeqSum(decay_probe.intervals)
            once == decay_a_cluster_weight(total, decay_probe.original)
        IN  /\ total = 0 => decay_probe.current = decay_probe.original
            /\ decay_probe.current.CF1 = once.CF1
            /\ decay_probe.current.CF2 = once.CF2
            /\ decay_probe.current.cumulative_weight = once.cumulative_weight
            /\ (lambbda > 0 /\ decay_probe.original.cumulative_weight > 0) =>
                   \A longer \in 0..MaxDay :
                       longer > total =>
                           decay_a_cluster_weight(longer, decay_probe.original).cumulative_weight
                               < decay_probe.current.cumulative_weight

\* C6 witness: lambda = 1, a microcluster off the origin decayed with interval 1
\* and again with interval 1, its weight a quarter of what it was.
C6_Witness ==
    /\ pc = "decay_probe"
    /\ lambbda = 1
    /\ decay_probe.intervals = <<1, 1>>
    /\ decay_probe.original.CF1 # Zeros(decay_probe.original.CF1)
    /\ 4 * decay_probe.current.cumulative_weight = decay_probe.original.cumulative_weight

\* C7: an assignment attempt that returns False (trial1 or trial2) leaves both
\* collections, and so every microcluster in them, exactly as they were.
C7_FailedAttemptChangesNothing ==
    /\ pc = "add_outlier" =>
            /\ prev.pc = "route"
            /\ pcore_MC = prev.pcore
            /\ outlier_MC = prev.outlier
    /\ pc = "create_outlier" =>
            /\ prev.pc = "add_outlier"
            /\ pcore_MC = prev.pcore
            /\ outlier_MC = prev.outlier

\* C7 witness: both attempts failed for a point although both collections
\* offered candidates.
C7_Witness ==
    /\ pc = "create_outlier"
    /\ pcore_MC # <<>>
    /\ outlier_MC # <<>>

\* C8: every row is routed exactly once, to one of the three outcomes; the
\* outlier assignment is tried only after the potential-core assignment failed
\* and a new outlier is created only after both failed.
C8_RoutedOnceInOrder ==
    /\ Len(routed) = row - 1
    /\ row <= Len(input_dataset) + 1
    /\ \A i \in 1..Len(routed) : routed[i] \in {"pcore", "outlier", "new"}
    /\ pc \in {"offline", "idle"} => Len(routed) = Len(input_dataset)
    /\ pc \in {"add_outlier", "create_outlier"} =>
            /\ row <= Len(input_dataset)
            /\ ~_add_to_pcore(input_dataset[row], input_dataset_daystamp).ok
    /\ pc = "create_outlier" =>
            ~_add_to_outlier(input_dataset[row], input_dataset_daystamp).ok

\* C8 witness: a batch of two rows ended with one row merged into a
\* potential-core microcluster and the other seeding a new outlier.
C8_Witness ==
    /\ pc = "offline"
    /\ Len(routed) = 2
    /\ "pcore" \in {routed[1], routed[2]}
    /\ "new" \in {routed[1], routed[2]}

\* C9: a point that fits no microcluster appends exactly one microcluster to
\* the outlier collection, with weight 1, CF1 = point and CF2 = point squared,
\* and changes nothing else; a one-point batch on the empty model at day 0
\* leaves exactly that one outlier and no potential-core microcluster.
C9_NewOutlierSeeded ==
    /\ prev.pc = "create_outlier" =>
            /\ pcore_MC = prev.pcore
            /\ Len(outlier_MC) = Len(prev.outlier) + 1
            /\ SubSeq(outlier_MC, 1, Len(prev.outlier)) = prev.outlier
            /\ LET mc == outlier_MC[Len(outlier_MC)]
                   datapoint == input_dataset[row - 1]
               IN  /\ mc.cumulative_weight = Scale
                   /\ mc.CF1 = [i \in Dims(datapoint) |-> datapoint[i] * Scale]
                   /\ mc.CF2 = [i \in Dims(datapoint) |-> datapoint[i] * datapoint[i] * Scale]
    /\ (calls = 1 /\ pc \in {"offline", "idle"} /\ Len(input_dataset) = 1
            /\ input_dataset_daystamp = 0) =>
            /\ pcore_MC = <<>>
            /\ Len(outlier_MC) = 1
            /\ outlier_MC[1].cumulative_weight = Scale
            /\ outlier_MC[1].CF1 = [i \in Dims(input_dataset[1]) |-> input_dataset[1][i] * Scale]

\* C9 witness: the one-point batch at day 0 is done and its outlier stays an
\* outlier although its weight meets beta * mu.
C9_Witness ==
    /\ calls = 1
    /\ pc = "offline"
    /\ Len(input_dataset) = 1
    /\ input_dataset_daystamp = 0
    /\ Len(outlier_MC) = 1
    /\ outlier_MC[1].cumulative_weight * BetaMu[2] >= BetaMu[1] * Scale
    /\ outlier_MC[1].CF1 # Zeros(input_dataset[1])

\* C10: a first batch of n >= 2 identical points leaves exactly one
\* microcluster in the two collections together, with weight n and its
\* centroid at the point, upgraded or not.
C10_IdenticalPointsOneCluster ==
    (/\ calls = 1
     /\ pc \in {"offline", "idle"}
     /\ Len(input_dataset) >= 2
     /\ \A i \in 1..Len(input_dataset) : input_dataset[i] = input_dataset[1]) =>
        LET all == pcore_MC \o outlier_MC
        IN  /\ Len(all) = 1
            /\ all[1].cumulative_weight = Len(input_dataset) * Scale
            /\ \A i \in Dims(all[1].CF1) :
                   all[1].CF1[i] = input_dataset[1][i] * all[1].cumulative_weight
            /\ calculate_projected_radius_squared(all[1])[1] = 0

\* C10 witness: such a batch ended with its microcluster upgraded to
\* potential-core and the last point merged into it there, under a configured
\* pi below the dimensionality.
C10_Witness ==
    /\ calls = 1
    /\ pc = "offline"
    /\ Len(input_dataset) >= 2
    /\ \A i \in 1..Len(input_dataset) : input_dataset[i] = input_dataset[1]
    /\ Len(pcore_MC) = 1
    /\ outlier_MC = <<>>
    /\ pi < dataset_dimensionality
    /\ input_dataset[1] # Zeros(input_dataset[1])
    /\ routed[Len(routed)] = "pcore"

\* The microcluster object uid, looked up in a list that holds it.
Find(list, uid) == list[CHOOSE i \in 1..Len(list) : list[i].uid = uid]

\* Whether a microcluster meets the two conditions of an upgrade as claimed:
\* weight at least beta * mu and at most pi dimensions that are not preferred,
\* the entries of its vector other than 1.
MeetsUpgrade(mc) ==
    /\ WeightGe(mc.cumulative_weight, BetaMu)
    /\ CountNotOne(mc.preferred_dimension_vector) <= pi

\* C11 (as claimed): right after a successful outlier assignment the receiving
\* microcluster (the one outlier that gained the point) is in the
\* potential-core collection if and only if its weight is >= beta * mu and its
\* preferred-dimension count is <= pi; otherwise it is still in the outlier
\* collection, in its place.
C11_UpgradeIff ==
    (prev.pc = "add_outlier" /\ pc = "route") =>
        \E i \in 1..Len(prev.outlier) :
            LET uid == prev.outlier[i].uid
                mc == Find(pcore_MC \o outlier_MC, uid)
            IN  /\ mc.cumulative_weight = prev.outlier[i].cumulative_weight + Scale
                /\ IF MeetsUpgrade(mc)
                   THEN /\ pcore_MC = Append(prev.pcore, mc)
                        /\ Uids(outlier_MC) = Uids(prev.outlier) \ {uid}
                   ELSE /\ pcore_MC = prev.pcore
                        /\ outlier_MC = [prev.outlier EXCEPT ![i] = mc]

\* Whether a call of online_microcluster_maintenance is running.
Running == pc \notin {"new", "exited", "idle", "decay_probe"}

\* C12: all through a call made with parameter reset, omicron is the omicron
\* multiplier times the number of rows of the batch before (0 in the first
\* call), mu is the mu multiplier times the number of rows of the batch of the
\* call, and dataset_size is that number of rows.
C12_OmegaFromPreviousBatch ==
    (Running /\ reset_param) =>
        /\ omicron[1] * config.omicron[2] = config.omicron[1] * prev.size_before * omicron[2]
        /\ mu[1] * config.mu[2] = config.mu[1] * Len(input_dataset) * mu[2]
        /\ dataset_size = Len(input_dataset)
        /\ calls = 1 => omicron[1] = 0

\* C12 witness: the deletion pass of a later call is about to run over
\* outliers, the batch before and the batch of the call differing in size.
C12_Witness ==
    /\ pc = "downgrade_outlier"
    /\ reset_param
    /\ outlier_MC # <<>>
    /\ prev.size_before > 0
    /\ Len(input_dataset) > 0
    /\ prev.size_before # Len(input_dataset)

\* C13: from the first batch on, pi is the dimensionality of the dataset when
\* the configured pi is <= 0 and the configured number when that is a positive
\* whole number, in every later batch as well.
C13_PiFixed ==
    calls >= 1 =>
        /\ dataset_dimensionality = Shape1
        /\ RLe(config.pi, <<0, 1>>) => pi = dataset_dimensionality
        /\ (RLt(<<0, 1>>, config.pi) /\ config.pi[2] = 1) => pi = config.pi[1]

\* C13 witness: a third call is running under a configured pi of 1, below the
\* dimensionality, with microclusters in both collections.
C13_Witness ==
    /\ calls >= 3
    /\ Running
    /\ config.pi = <<1, 1>>
    /\ pi = 1
    /\ pi < dataset_dimensionality
    /\ pcore_MC # <<>>
    /\ outlier_MC # <<>>

\* C14: a configured delta below 0 or above 1 ends the process in the
\* constructor: no call is ever made and no microcluster exists; every delta
\* in [0, 1], both ends included, is accepted.
C14_DeltaOutOfRangeExits ==
    pc # "new" =>
        IF RLt(config.delta, <<0, 1>>) \/ RLt(<<1, 1>>, config.delta)
        THEN /\ pc = "exited"
             /\ calls = 0
             /\ pcore_MC = <<>>
             /\ outlier_MC = <<>>
             /\ datapoints = EmptyDict
        ELSE pc # "exited"

\* C14 witness: the constructor has exited on a delta above 1.
C14_Witness ==
    /\ pc = "exited"
    /\ RLt(<<1, 1>>, config.delta)

\* Whether a record of the payload is the record of a microcluster.
RecordOf(record, mc) ==
    /\ record.datapoint_dimension_values = cluster_centroids(mc)
    /\ record.cluster_CF1 = mc.CF1
    /\ record.cluster_CF2 = mc.CF2
    /\ record.cluster_cumulative_weight = mc.cumulative_weight
    /\ record.datapoint_id = mc.id

\* C15 (as claimed): the payload built at the end of a batch holds as many
\* records as the potential-core collection holds microclusters, one for each
\* of them with its centroid, CF1, CF2 and weight, and no other record.
C15_PayloadOnePerPcore ==
    (pc = "idle" /\ calls >= 1) =>
        /\ Cardinality(DOMAIN datapoints) = Len(pcore_MC)
        /\ \A i \in 1..Len(pcore_MC) :
               \E id \in DOMAIN datapoints : RecordOf(datapoints[id], pcore_MC[i])
        /\ \A id \in DOMAIN datapoints :
               \E i \in 1..Len(pcore_MC) : RecordOf(datapoints[id], pcore_MC[i])

\* C16: the phases of a call follow one another in one order: parameters; on a
\* new day only, decay, then potential-core downgrade, then outlier deletion,
\* then point-buffer reset, all before any row is routed; then the rows in
\* batch order; then last_data_timestamp; then the offline handoff, once, and
\* never before the last row is routed.
C16_PhaseOrder ==
    /\ prev.pc = "idle" => pc = "params_set"
    /\ prev.pc = "params_set" =>
           pc = IF input_dataset_daystamp # last_data_timestamp THEN "decay" ELSE "route"
    /\ prev.pc = "decay" => pc = "downgrade_pcore"
    /\ prev.pc = "downgrade_pcore" => pc = "downgrade_outlier"
    /\ prev.pc = "downgrade_outlier" => pc = "reset_points"
    /\ prev.pc = "reset_points" => pc = "route"
    /\ prev.pc = "route" => pc \in {"route", "add_outlier", "offline"}
    /\ prev.pc = "add_outlier" => pc \in {"route", "create_outlier"}
    /\ prev.pc = "create_outlier" => pc = "route"
    /\ pc \in {"params_set", "decay", "downgrade_pcore", "downgrade_outlier", "reset_points"} =>
           row = 1 /\ routed = <<>>
    /\ pc = "offline" =>
           /\ prev.pc = "route"
           /\ Len(routed) = Len(input_dataset)
           /\ row = Len(input_dataset) + 1
           /\ last_data_timestamp = input_dataset_daystamp
    /\ (pc = "idle" /\ calls >= 1) =>
           /\ Len(routed) = Len(input_dataset)
           /\ last_data_timestamp = input_dataset_daystamp

\* C16 witness: a later call on a new day has gone through the decay block and
\* routed its two rows, and is at the offline handoff.
C16_Witness ==
    /\ pc = "offline"
    /\ calls >= 2
    /\ decay_runs = 1
    /\ Len(routed) = 2
    /\ pcore_MC # <<>>

\* Whether a microcluster is well formed for a dataset of n dimensions.
WellFormed(mc, n) ==
    /\ mc.cumulative_weight >= 0
    /\ Len(mc.CF1) = n
    /\ Len(mc.CF2) = n
    /\ Len(mc.preferred_dimension_vector) = n
    /\ CountNotOne(mc.preferred_dimension_vector) \in 0..n
    /\ CountAboveOne(mc.preferred_dimension_vector) \in 0..n

\* C17: every microcluster in either collection has a cumulative_weight >= 0,
\* CF1 and CF2 of exactly dataset_dimensionality entries, and a
\* preferred-dimension count between 0 and the dimensionality.
C17_WellFormedMicroclusters ==
    /\ \A i \in 1..Len(pcore_MC) : WellFormed(pcore_MC[i], dataset_dimensionality)
    /\ \A i \in 1..Len(outlier_MC) : WellFormed(outlier_MC[i], dataset_dimensionality)

\* C17 witness: after a decay over two days the collections hold a
\* microcluster of a weight between 0 and 1 and a microcluster none of whose
\* dimensions is preferred.
C17_Witness ==
    /\ decay_interval = 2
    /\ pc = "route"
    /\ LET all == pcore_MC \o outlier_MC
       IN  /\ \E i \in 1..Len(all) :
                  all[i].cumulative_weight > 0 /\ all[i].cumulative_weight < Scale
           /\ \E i \in 1..Len(all) :
                  CountNotOne(all[i].preferred_dimension_vector) = dataset_dimensionality

\* C18 (as claimed): for every microcluster in either collection the count of
\* vector entries != 1 (the count of the potential-core assignment filter) is
\* the count of entries > 1 (the count of the upgrade and downgrade checks).
C18_CountsAgree ==
    LET all == pcore_MC \o outlier_MC
    IN  \A i \in 1..Len(all) :
            CountNotOne(all[i].preferred_dimension_vector)
                = CountAboveOne(all[i].preferred_dimension_vector)

\* Whether no two positions of a list hold the same identifier.
DistinctIds(list) ==
    \A i \in 1..Len(list) : \A j \in 1..Len(list) : i # j => list[i].id # list[j].id

\* C19 (as claimed): within the potential-core collection, and within the
\* outlier collection, no two microclusters hold the same identifier.
C19_IdsDistinctPerCollection == DistinctIds(pcore_MC) /\ DistinctIds(outlier_MC)

\* The positions of a list whose microcluster, with the point merged into a
\* clone of it, has at most pi vector entries that are not 1.
Candidates(list, datapoint) ==
    {i \in 1..Len(list) :
        CountNotOne(get_copy_with_new_point(list[i], datapoint, delta_squared, k)
                        .preferred_dimension_vector) <= pi}

\* Whether position c is the candidate at minimum projected distance from the
\* microcluster as it is (no point merged) to the point, the earliest of those
\* at that distance.
IsNearestCandidate(list, datapoint, c) ==
    /\ c \in Candidates(list, datapoint)
    /\ \A j \in Candidates(list, datapoint) :
           LET dc == get_projected_dist_to_point(list[c], datapoint)
               dj == get_projected_dist_to_point(list[j], datapoint)
           IN  /\ dc[1] * dj[2] <= dj[1] * dc[2]
               /\ dc[1] * dj[2] = dj[1] * dc[2] => c <= j

\* C20: the potential-core assignment selects the nearest candidate, or none
\* when there is no candidate, for the row about to be routed; and a row that
\* was merged into a potential-core microcluster was merged into the nearest
\* candidate of the collection as it was.
C20_NearestCandidateSelected ==
    /\ (pc = "route" /\ row <= Len(input_dataset)) =>
           LET selected == ClosestPcore(1, 0, input_dataset[row])
           IN  IF Candidates(pcore_MC, input_dataset[row]) = {}
               THEN selected = 0
               ELSE selected # 0 /\ IsNearestCandidate(pcore_MC, input_dataset[row], selected)
    /\ (prev.pc = "route" /\ pc = "route") =>
           /\ Len(pcore_MC) = Len(prev.pcore)
           /\ \E c \in 1..Len(pcore_MC) :
                  /\ IsNearestCandidate(prev.pcore, input_dataset[row - 1], c)
                  /\ pcore_MC[c].cumulative_weight = prev.pcore[c].cumulative_weight + Scale
                  /\ \A j \in 1..Len(pcore_MC) : j # c => pcore_MC[j] = prev.pcore[j]

\* C20 witness: a row was merged into the first of two candidates that were
\* both at distance 0 from it.
C20_Witness ==
    /\ prev.pc = "route"
    /\ pc = "route"
    /\ \E c \in Candidates(prev.pcore, input_dataset[row - 1]) :
       \E j \in Candidates(prev.pcore, input_dataset[row - 1]) :
           /\ c < j
           /\ pcore_MC[c] # prev.pcore[c]
           /\ get_projected_dist_to_point(prev.pcore[c], input_dataset[row - 1])[1] = 0
           /\ get_projected_dist_to_point(prev.pcore[j], input_dataset[row - 1])[1] = 0

\* Whether position c of a list holds the microcluster at minimum projected
\* distance to the point among all of the list, the earliest of those at that
\* distance.
IsNearest(list, datapoint, c) ==
    /\ c \in 1..Len(list)
    /\ \A j \in 1..Len(list) :
           LET dc == get_projected_dist_to_point(list[c], datapoint)
               dj == get_projected_dist_to_point(list[j], datapoint)
           IN  /\ dc[1] * dj[2] <= dj[1] * dc[2]
               /\ dc[1] * dj[2] = dj[1] * dc[2] => c <= j

\* C21 (as claimed): the outlier assignment selects the nearest of all outlier
\* microclusters, whatever the preferred-dimension count of its clone, and
\* none only when there is no outlier; a row merged into an outlier went into
\* that nearest one, and when the preferred-dimension count of the
\* microcluster then exceeds pi it stays in the outlier collection.
C21_OutlierNoPiFilter ==
    /\ pc = "add_outlier" =>
           LET selected == ClosestOutlier(1, 0, input_dataset[row])
           IN  IF outlier_MC = <<>>
               THEN selected = 0
               ELSE IsNearest(outlier_MC, input_dataset[row], selected)
    /\ (prev.pc = "add_outlier" /\ pc = "route") =>
           \E c \in 1..Len(prev.outlier) :
               LET mc == Find(pcore_MC \o outlier_MC, prev.outlier[c].uid)
               IN  /\ IsNearest(prev.outlier, input_dataset[row - 1], c)
                   /\ mc.cumulative_weight = prev.outlier[c].cumulative_weight + Scale
                   /\ CountNotOne(mc.preferred_dimension_vector) > pi =>
                          outlier_MC = [prev.outlier EXCEPT ![c] = mc]

\* Whether the clone of a microcluster with the point merged has a projected
\* radius squared of at most epsilon squared.
TentativeFit(mc, datapoint) ==
    LET radius == calculate_projected_radius_squared(
                      get_copy_with_new_point(mc, datapoint, delta_squared, k))
    IN  radius[1] * epsilon_squared[2] <= epsilon_squared[1] * radius[2]

\* Whether after is before with one point merged: weight + 1, CF1 + point,
\* CF2 + point squared, the same object.
GainedPoint(mc_before, mc_after, datapoint) ==
    /\ mc_after.uid = mc_before.uid
    /\ mc_after.cumulative_weight = mc_before.cumulative_weight + Scale
    /\ \A i \in Dims(datapoint) :
           /\ mc_after.CF1[i] = mc_before.CF1[i] + datapoint[i] * Scale
           /\ mc_after.CF2[i] = mc_before.CF2[i] + datapoint[i] * datapoint[i] * Scale

\* The microclusters of a list other than the object uid, in order.
Others(list, uid) == SelectSeq(list, LAMBDA mc : mc.uid # uid)

\* C22: an assignment attempt succeeds if and only if there is a nearest
\* candidate and its clone has a radius squared <= epsilon squared; a failed
\* attempt is one with no candidate or with a nearest candidate that does not
\* fit, whatever the other candidates; on success the nearest candidate alone
\* gains the point and every other microcluster of both collections is as it
\* was.
C22_OnlyNearestTested ==
    /\ (prev.pc = "route" /\ pc = "add_outlier") =>
           \A c \in 1..Len(prev.pcore) :
               IsNearestCandidate(prev.pcore, input_dataset[row], c) =>
                   ~TentativeFit(prev.pcore[c], input_dataset[row])
    /\ (prev.pc = "route" /\ pc = "route") =>
           \E c \in 1..Len(prev.pcore) :
               /\ IsNearestCandidate(prev.pcore, input_dataset[row - 1], c)
               /\ TentativeFit(prev.pcore[c], input_dataset[row - 1])
               /\ GainedPoint(prev.pcore[c], pcore_MC[c], input_dataset[row - 1])
               /\ Others(pcore_MC, prev.pcore[c].uid) = Others(prev.pcore, prev.pcore[c].uid)
               /\ outlier_MC = prev.outlier
    /\ (prev.pc = "add_outlier" /\ pc = "create_outlier") =>
           \A c \in 1..Len(prev.outlier) :
               IsNearest(prev.outlier, input_dataset[row], c) =>
                   ~TentativeFit(prev.outlier[c], input_dataset[row])
    /\ (prev.pc = "add_outlier" /\ pc = "route") =>
           \E c \in 1..Len(prev.outlier) :
               LET uid == prev.outlier[c].uid
               IN  /\ IsNearest(prev.outlier, input_dataset[row - 1], c)
                   /\ TentativeFit(prev.outlier[c], input_dataset[row - 1])
                   /\ GainedPoint(prev.outlier[c], Find(pcore_MC \o outlier_MC, uid),
                                  input_dataset[row - 1])
                   /\ Others(pcore_MC, uid) = prev.pcore
                   /\ Others(outlier_MC, uid) = Others(prev.outlier, uid)

\* C22 witness: a row was merged into a potential-core microcluster whose
\* clone had a radius squared of exactly epsilon squared, not zero.
C22_Witness ==
    /\ prev.pc = "route"
    /\ pc = "route"
    /\ epsilon_squared[1] > 0
    /\ \E c \in 1..Len(pcore_MC) :
           /\ pcore_MC[c] # prev.pcore[c]
           /\ calculate_projected_radius_squared(pcore_MC[c])[1] > 0
           /\ calculate_projected_radius_squared(pcore_MC[c])[1] * epsilon_squared[2]
                  = epsilon_squared[1] * calculate_projected_radius_squared(pcore_MC[c])[2]

\* Whether after is before decayed once with the factor 2^(-lambda * interval)
\* on CF1, CF2 and the weight, and nothing else of it changed.
DecayedOnce(mc_before, mc_after, interval) ==
    LET factor == Pow2(lambbda * interval)
    IN  /\ mc_after.cumulative_weight * factor = mc_before.cumulative_weight
        /\ \A i \in Dims(mc_before.CF1) :
               /\ mc_after.CF1[i] * factor = mc_before.CF1[i]
               /\ mc_after.CF2[i] * factor = mc_before.CF2[i]
        /\ mc_after.uid = mc_before.uid
        /\ mc_after.preferred_dimension_vector = mc_before.preferred_dimension_vector

\* Whether every microcluster of the list after has the CF1, CF2 and weight it
\* has in the list before.
SameStatistics(list_before, list_after) ==
    \A i \in 1..Len(list_after) :
        \E j \in 1..Len(list_before) :
            /\ list_before[j].uid = list_after[i].uid
            /\ list_before[j].CF1 = list_after[i].CF1
            /\ list_before[j].CF2 = list_after[i].CF2
            /\ list_before[j].cumulative_weight = list_after[i].cumulative_weight

\* C23: the decay of a day-boundary pass decays every microcluster of both
\* collections once, with the one factor 2^(-lambda * interval) for the whole
\* gap of days, on CF1, CF2 and the weight alike; the downgrade pass, the
\* deletion pass and the buffer reset that follow decay nothing again, a
\* downgraded microcluster included.
C23_DecayedOnce ==
    /\ prev.pc = "decay" =>
           LET interval == input_dataset_daystamp - last_data_timestamp
           IN  /\ decay_runs = 1
               /\ Len(pcore_MC) = Len(prev.pcore)
               /\ Len(outlier_MC) = Len(prev.outlier)
               /\ \A i \in 1..Len(pcore_MC) : DecayedOnce(prev.pcore[i], pcore_MC[i], interval)
               /\ \A i \in 1..Len(outlier_MC) : DecayedOnce(prev.outlier[i], outlier_MC[i], interval)
    /\ prev.pc \in {"downgrade_pcore", "downgrade_outlier", "reset_points"} =>
           /\ decay_runs = 1
           /\ SameStatistics(prev.pcore \o prev.outlier, pcore_MC \o outlier_MC)

\* C23 witness: after a gap of two days a microcluster that had been decayed
\* to a quarter of its weight has just been downgraded.
C23_Witness ==
    /\ prev.pc = "downgrade_pcore"
    /\ decay_interval = 2
    /\ Len(pcore_MC) < Len(prev.pcore)
    /\ outlier_MC # <<>>
    /\ outlier_MC[Len(outlier_MC)].cumulative_weight > 0

\* C24: the potential-core downgrade runs before the outlier deletion, so a
\* microcluster downgraded in a day-boundary pass whose decayed weight is
\* <= omicron is in neither collection once the deletion pass has finished.
C24_DowngradedThenDeleted ==
    prev.pc = "downgrade_outlier" =>
        \A i \in 1..Len(prev.outlier) :
            (/\ prev.outlier[i].uid \in prev.downgraded
             /\ WeightLe(prev.outlier[i].cumulative_weight, omicron))
            => prev.outlier[i].uid \notin Uids(pcore_MC) \cup Uids(outlier_MC)

\* C24 witness: a microcluster downgraded in this pass had a weight <= omicron
\* and the deletion pass removed it.
C24_Witness ==
    /\ prev.pc = "downgrade_outlier"
    /\ \E i \in 1..Len(prev.outlier) :
           /\ prev.outlier[i].uid \in prev.downgraded
           /\ WeightLe(prev.outlier[i].cumulative_weight, omicron)
           /\ prev.outlier[i].uid \notin Uids(pcore_MC) \cup Uids(outlier_MC)

\* The potential-core microcluster a record of the payload was written from:
\* the last one of pcore_MC that carries the record's id.
SourceOf(id) ==
    LET at == CHOOSE i \in 1..Len(pcore_MC) :
                  /\ pcore_MC[i].id = id
                  /\ \A j \in (i + 1)..Len(pcore_MC) : pcore_MC[j].id # id
    IN  pcore_MC[at]

\* The three conditions of a core microcluster, on mu and not on beta * mu.
CoreConditions(mc) ==
    /\ mc.cumulative_weight * mu[2] >= mu[1] * Scale
    /\ Cardinality({d \in Dims(mc.preferred_dimension_vector) :
                       RLt(<<1, 1>>, mc.preferred_dimension_vector[d])}) <= pi
    /\ RLe(calculate_projected_radius_squared(mc), RSquare(epsilon))

BufferedOn(list, day) ==
    \A i \in 1..Len(list) :
        \A j \in 1..Len(list[i].points) : list[i].points[j].timestamp = day

\* C26: the buffer reset that ends a day-boundary block leaves every
\* microcluster of both collections with an empty point buffer and with the
\* CF1, CF2 and weight the decay gave it; hence, while rows are routed and
\* after the call, a buffer holds only points added on the day of the batch.
C26_BuffersOfTheDay ==
    /\ prev.pc = "reset_points" =>
           /\ \A i \in 1..Len(pcore_MC) :
                  /\ pcore_MC[i].points = <<>>
                  /\ pcore_MC[i] = [prev.pcore[i] EXCEPT !.points = <<>>]
           /\ \A i \in 1..Len(outlier_MC) :
                  /\ outlier_MC[i].points = <<>>
                  /\ outlier_MC[i] = [prev.outlier[i] EXCEPT !.points = <<>>]
           /\ Len(pcore_MC) = Len(prev.pcore)
           /\ Len(outlier_MC) = Len(prev.outlier)
    /\ pc \in {"route", "add_outlier", "create_outlier", "offline"} =>
           BufferedOn(pcore_MC \o outlier_MC, input_dataset_daystamp)
    /\ pc = "idle" => BufferedOn(pcore_MC \o outlier_MC, last_data_timestamp)

\* C26 witness: the reset has just emptied the buffer of a microcluster that
\* held points of an earlier day and whose decayed weight is not zero.
C26_Witness ==
    /\ prev.pc = "reset_points"
    /\ \E i \in 1..Len(prev.pcore) :
           /\ prev.pcore[i].points # <<>>
           /\ prev.pcore[i].cumulative_weight > 0
           /\ prev.pcore[i].cumulative_weight < Len(prev.pcore[i].points) * Scale
    /\ \E i \in 1..Len(prev.outlier) : prev.outlier[i].points # <<>>

\* The weight of every microcluster of a list, added up.
TotalWeight(list) == SeqSum([i \in 1..Len(list) |-> list[i].cumulative_weight])

\* The weight a microcluster (given by its uid) has in a list, 0 when absent.
WeightOf(list, uid) ==
    IF uid \in Uids(list) THEN Find(list, uid).cumulative_weight ELSE 0

\* The microclusters whose weight differs between two lists.
Changed(list_before, list_after) ==
    {uid \in Uids(list_before) \cup Uids(list_after) :
        WeightOf(list_before, uid) # WeightOf(list_after, uid)}

\* C27: while the rows of a batch are routed the weights of the two
\* collections together grow by 1 for each row placed: a step that places a row
\* adds 1 to one microcluster and nothing to any other, an upgrade included,
\* a step that places none changes no weight, and after the last row the sum
\* is n above what it was when routing started.
C27_WeightConservation ==
    LET before == prev.pcore \o prev.outlier
        after == pcore_MC \o outlier_MC
        placed == \/ prev.pc = "route" /\ pc = "route"
                  \/ prev.pc = "add_outlier" /\ pc = "route"
                  \/ prev.pc = "create_outlier"
    IN  /\ placed =>
               /\ TotalWeight(after) = TotalWeight(before) + Scale
               /\ \E uid \in Uids(after) :
                      /\ Changed(before, after) = {uid}
                      /\ WeightOf(after, uid) = WeightOf(before, uid) + Scale
        /\ (prev.pc \in {"route", "add_outlier"} /\ ~placed) => Changed(before, after) = {}
        /\ pc \in {"route", "add_outlier", "create_outlier"} =>
               TotalWeight(after) = prev.weight_start + (row - 1) * Scale
        /\ pc = "offline" =>
               TotalWeight(after) = prev.weight_start + Len(input_dataset) * Scale

\* C27 witness: the second row of a batch, routed onto collections that held
\* weight before the batch, has just been merged into an outlier that was
\* upgraded by it.
C27_Witness ==
    /\ prev.pc = "add_outlier"
    /\ pc = "route"
    /\ row = 3
    /\ prev.weight_start > 0
    /\ Len(pcore_MC) > Len(prev.pcore)
    /\ TotalWeight(pcore_MC \o outlier_MC) = prev.weight_start + 2 * Scale

\* C28 (as claimed): every microcluster of the potential-core collection has
\* at most pi entries of its vector that are not the mark of a preferred
\* dimension, the count the assignment filter takes, in every state.
C28_PcoreWithinPi ==
    \A i \in 1..Len(pcore_MC) : CountNotOne(pcore_MC[i].preferred_dimension_vector) <= pi

\* C29: routing a row removes no microcluster and moves none from the
\* potential-core collection to the outlier collection; the number of
\* microclusters grows by 1 when a row fits nowhere and is unchanged by every
\* other routing step, an upgrade included; a microcluster leaves a collection
\* for nowhere or for the outlier collection only in the two downgrade steps
\* of a day-boundary pass.
C29_RoutingOnlyGrows ==
    LET count_before == Len(prev.pcore) + Len(prev.outlier)
        count_after == Len(pcore_MC) + Len(outlier_MC)
        kept == /\ Uids(prev.pcore) \subseteq Uids(pcore_MC)
                /\ Uids(prev.outlier) \subseteq Uids(pcore_MC) \cup Uids(outlier_MC)
    IN  /\ prev.pc \in {"route", "add_outlier"} => (kept /\ count_after = count_before)
        /\ prev.pc = "create_outlier" =>
               /\ kept
               /\ count_after = count_before + 1
               /\ Len(outlier_MC) = Len(prev.outlier) + 1
        /\ prev.pc \in {"idle", "params_set", "decay", "reset_points"} =>
               /\ Uids(pcore_MC) = Uids(prev.pcore)
               /\ Uids(outlier_MC) = Uids(prev.outlier)
        /\ ~kept => prev.pc \in {"downgrade_pcore", "downgrade_outlier"}

\* C29 witness: a row that fit nowhere has just added a microcluster to
\* collections that both held some, in a batch in which a row before it had
\* been merged into an outlier and a potential-core microcluster holds points.
C29_Witness ==
    /\ prev.pc = "create_outlier"
    /\ prev.pcore # <<>>
    /\ prev.outlier # <<>>
    /\ Len(outlier_MC) = Len(prev.outlier) + 1
    /\ \E i \in 1..Len(routed) : routed[i] = "outlier"
    /\ \E i \in 1..Len(pcore_MC) : pcore_MC[i].points # <<>>

\* The microclusters of a list that are, or are not, among the given uids, in
\* the order of the list.
Among(list, uids) == SelectSeq(list, LAMBDA mc : mc.uid \in uids)
NotAmong(list, uids) == SelectSeq(list, LAMBDA mc : mc.uid \notin uids)

\* Whether two values of a microcluster differ at most in the id.
SameButId(mc_before, mc_after) == mc_after = [mc_before EXCEPT !.id = mc_after.id]

\* C30: a move between the collections changes the id of the moved
\* microcluster and nothing else of it, and nothing at all of any other
\* microcluster, its id and its place among the others of its collection
\* included.  For a downgrade pass, against the collections before the pass;
\* for an upgrade, against the collections with the row committed to the
\* outlier that receives it.
C30_MoveChangesIdOnly ==
    /\ prev.pc = "downgrade_pcore" =>
           LET moved == Uids(prev.pcore) \ Uids(pcore_MC)
           IN  /\ pcore_MC = NotAmong(prev.pcore, moved)
               /\ NotAmong(outlier_MC, moved) = prev.outlier
               /\ Uids(Among(outlier_MC, moved)) = moved
               /\ \A uid \in moved : SameButId(Find(prev.pcore, uid), Find(outlier_MC, uid))
    /\ (prev.pc = "add_outlier" /\ Len(pcore_MC) > Len(prev.pcore)) =>
           LET upgraded == pcore_MC[Len(pcore_MC)]
               moved == {upgraded.uid}
               committed == Commit(Find(prev.outlier, upgraded.uid), input_dataset[row - 1],
                                   input_dataset_daystamp)
           IN  /\ upgraded.uid \in Uids(prev.outlier)
               /\ NotAmong(pcore_MC, moved) = prev.pcore
               /\ outlier_MC = NotAmong(prev.outlier, moved)
               /\ SameButId(committed, upgraded)

\* C30 witness: a downgrade pass has just moved a microcluster into an outlier
\* collection that already held one, and the id of the moved one has changed.
C30_Witness ==
    /\ prev.pc = "downgrade_pcore"
    /\ prev.outlier # <<>>
    /\ Len(pcore_MC) < Len(prev.pcore)
    /\ \E i \in 1..Len(outlier_MC) :
           /\ outlier_MC[i].uid \in Uids(prev.pcore)
           /\ outlier_MC[i].id # Find(prev.pcore, outlier_MC[i].uid).id

====
